---- MODULE Spec2Model ----
(***************************************************************************)
(* MathMon: the sync queue (services/syncQueue.ts), its drain protocol     *)
(* (services/cloudSync.ts, hooks/useGameState.ts), the sync indicator      *)
(* (hooks/useSyncStatus.ts, components/common/SyncIndicator.tsx) and the   *)
(* game-state reducer (utils/storage.ts).                                  *)
(*                                                                         *)
(* Spec      the sync half: direct syncs, the persisted queue, drain       *)
(*           passes, the remote tables, the indicator.                     *)
(* GameSpec  the reducer half: the profile under gameplay events.          *)
(* LoadedSpec the reducer from a loaded profile; RewardSpec the daily     *)
(*           reward over the clock; LiveSpec the sync half with calls      *)
(*           that answer; WorksheetSpec worksheet results against a store  *)
(*           that is up; HookSpec the hook's effects and handlers with     *)
(*           cloudSync: sign-in, load, play, logout, page loads.           *)
(***************************************************************************)
EXTENDS Integers, Sequences, FiniteSets, TLC

\* ------------------------------------------------------------------ bounds
MaxOps == 2          \* operations ever added to the queue
MaxPasses == 2       \* processQueue invocations that can be in flight together
MaxInflight == 1     \* direct sync calls that can be in flight together
MaxLost == 1         \* remote writes that commit while their response is lost
MaxEvents == 4       \* reducer events in one run of the game half
MaxDay == 3          \* the last day the clock of the game half reaches
MaxStreak == 2       \* the longest answer streak the game reports
MaxAnswers == 2      \* answers recorded in one run of the hook

\* ------------------------------------------------------- program constants
MAX_RETRY_COUNT == 5

Users == {"u1", "u2"}
NoUser == "none"

OpTypes == {"profile_update", "pokemon_catch", "achievement_update", "worksheet_save"}

\* The payload of an operation, by kind: an xp value for a profile update, a
\* species for a catch, a progress value for an achievement, a worksheet
\* result's stars for a worksheet save.
PayloadOf(type) ==
  CASE type = "profile_update" -> {1}
    [] type = "pokemon_catch" -> {25}
    [] type = "achievement_update" -> {1}
    [] type = "worksheet_save" -> {3}

\* What the remote-write collaborator can do with one call: commit the write
\* and answer ("ok"), commit it while the answer is lost ("lost"), or not
\* commit it and report an error ("fail").
Outcomes == {"ok", "lost", "fail"}

Committed(outcome) == outcome \in {"ok", "lost"}

\* The remote schema's CHECK on worksheet_results.stars: a row outside 1..3
\* is rejected, the insert answers an error.
Accepts(type, payload) == type = "worksheet_save" => payload \in 1..3

VARIABLES
  queue,        \* localStorage['mathmon_sync_queue']: sequence of SyncOperation
  nextId,       \* the next id generateId hands out
  passes,       \* the processQueue invocations: [1..MaxPasses -> record]
  inflight,     \* direct sync calls awaiting their remote answer
  loading,      \* the user whose loadFromCloud is in flight, or NoUser
  userId,       \* the user id the hook is mounted with, or NoUser
  isSyncing,    \* cloudSync's module flag
  online,       \* navigator.onLine as the hook sees it
  pendingCount, \* useSyncStatus' pendingCount state
  caughtRows,   \* remote caught_pokemon: rows per queued operation they came from
  worksheetRows,\* remote worksheet_results: rows per queued operation they came from
  profileRow,   \* remote profiles: the value last written, per user
  progressRow,  \* remote user_achievements: the progress last written, per user
  applied,      \* history: times the write of a queued operation was committed
  lostCount,    \* history: answers lost so far
  delivered,    \* history: ids removed after a successful attempt
  dropped,      \* history: ids removed for exceeding the retry bound
  cleared,      \* history: ids removed by clearQueue
  game,         \* the GameState of the reducer
  tick,         \* the clock, in thirds of a day
  tz,           \* the browser's offset from UTC, in thirds of a day
  events,       \* history: reducer events applied so far
  showDailyReward, \* App's showDailyReward state: the reward modal is open
  isLoaded,     \* the hook's isLoaded state
  owner,        \* the user the load that gave the hook's gameState was for, NoUser for the offline load
  stored,       \* localStorage's game state items, per storage key
  loggedOut     \* history: the users who logged out and have not logged in since

syncVars == <<queue, nextId, passes, inflight, loading, userId, isSyncing, online,
              pendingCount, caughtRows, worksheetRows, profileRow,
              progressRow, applied, lostCount, delivered, dropped, cleared>>

gameVars == <<game, tick, tz, events, showDailyReward>>

hookVars == <<isLoaded, owner, stored, loggedOut>>

vars == <<queue, nextId, passes, inflight, loading, userId, isSyncing, online,
          pendingCount, caughtRows, worksheetRows, profileRow,
          progressRow, applied, lostCount, delivered, dropped, cleared,
          game, tick, tz, events, showDailyReward,
          isLoaded, owner, stored, loggedOut>>

OpIds == 1..MaxOps

\* ------------------------------------------------------------ syncQueue.ts

\* addToQueue with push replaced by unshift.
addToQueueFront(q, id, type, payload, user) ==
  <<[id |-> id, type |-> type, payload |-> payload, userId |-> user, retryCount |-> 0]>> \o q

addToQueue(q, id, type, payload, user) ==
  Append(q, [id |-> id, type |-> type, payload |-> payload, userId |-> user, retryCount |-> 0])

removeFromQueue(q, id) == SelectSeq(q, LAMBDA op : op.id # id)

\* processOperation answering true whatever the service call did.
processOperationAlways(outcome) == TRUE

\* processOperation: whether the service call answered with a row.
processOperation(outcome) == outcome = "ok"

\* incrementRetryCount dropping at >= instead of >.
incrementRetryCountEager(q, id) ==
  IF \A i \in 1..Len(q) : q[i].id # id
    THEN q
    ELSE LET bumped == [i \in 1..Len(q) |->
                          IF q[i].id = id
                            THEN [q[i] EXCEPT !.retryCount = @ + 1]
                            ELSE q[i]]
             op == CHOOSE o \in {bumped[i] : i \in 1..Len(q)} : o.id = id
         IN IF op.retryCount >= MAX_RETRY_COUNT
              THEN SelectSeq(bumped, LAMBDA o : o.id # id)
              ELSE bumped

\* incrementRetryCount holding the count at the bound instead of dropping.
incrementRetryCountCapped(q, id) ==
  [i \in 1..Len(q) |->
     IF q[i].id = id /\ q[i].retryCount < MAX_RETRY_COUNT
       THEN [q[i] EXCEPT !.retryCount = @ + 1]
       ELSE q[i]]

\* incrementRetryCount: the queue it saves.
incrementRetryCount(q, id) ==
  IF \A i \in 1..Len(q) : q[i].id # id
    THEN q
    ELSE LET bumped == [i \in 1..Len(q) |->
                          IF q[i].id = id
                            THEN [q[i] EXCEPT !.retryCount = @ + 1]
                            ELSE q[i]]
             op == CHOOSE o \in {bumped[i] : i \in 1..Len(q)} : o.id = id
         IN IF op.retryCount > MAX_RETRY_COUNT
              THEN SelectSeq(bumped, LAMBDA o : o.id # id)
              ELSE bumped

getUserQueue(q, user) == SelectSeq(q, LAMBDA op : op.userId = user)

getPendingCount(q) == Len(q)

QueueIds(q) == {q[i].id : i \in 1..Len(q)}

\* The entry of id in q (id must be queued).
Entry(q, id) == CHOOSE o \in {q[i] : i \in 1..Len(q)} : o.id = id

\* ------------------------------------------------------------- cloudSync.ts

IdlePass == [active |-> FALSE, user |-> NoUser, snap |-> <<>>, idx |-> 0]
IdleCall == [active |-> FALSE, type |-> "profile_update", payload |-> 0, user |-> NoUser]

PassIds == 1..MaxPasses
CallIds == 1..MaxInflight

ActivePasses == {p \in PassIds : passes[p].active}
ActiveCalls == {c \in CallIds : inflight[c].active}

\* The operation a running pass is awaiting.
Current(p) == passes[p].snap[passes[p].idx]

\* The copy of an operation a pass iterates over (its retryCount is never read).
Snapshot(q) == [i \in 1..Len(q) |->
                 [id |-> q[i].id, type |-> q[i].type, payload |-> q[i].payload,
                  userId |-> q[i].userId]]

\* SyncIndicator: the status text it renders.
SyncIndicator ==
  IF ~online THEN "Offline"
  ELSE IF isSyncing THEN "Syncing..."
  ELSE IF pendingCount > 0 THEN "Pending"
  ELSE "Synced"

\* notifySyncListeners followed by the re-render of useSyncStatus: the
\* indicator renders the flag (its snapshot of getSyncState), and the effect
\* keyed on the flag re-reads the pending count only when the flag changed.
Notify(flag, q) ==
  pendingCount' = IF flag # isSyncing THEN getPendingCount(q) ELSE pendingCount

\* The remote effect of one committed write. wid is the queued operation the
\* write belongs to, 0 for a direct sync that never reaches the queue (the
\* rows of those are not kept).
RemoteWrite(type, payload, user, wid) ==
  /\ profileRow' = IF type = "profile_update"
                     THEN [profileRow EXCEPT ![user] = payload] ELSE profileRow
  /\ progressRow' = IF type = "achievement_update"
                      THEN [progressRow EXCEPT ![user] = payload] ELSE progressRow
  /\ caughtRows' = IF type = "pokemon_catch" /\ wid # 0
                     THEN [caughtRows EXCEPT ![wid] = @ + 1] ELSE caughtRows
  /\ worksheetRows' = IF type = "worksheet_save" /\ wid # 0
                        THEN [worksheetRows EXCEPT ![wid] = @ + 1] ELSE worksheetRows

NoRemoteWrite ==
  UNCHANGED <<profileRow, progressRow, caughtRows, worksheetRows>>

\* processQueue up to its first await: the snapshot, the early return on an
\* empty queue, the flag. q is the persisted queue at the call, flag the value
\* of isSyncing at the call.
processQueueStart(user, q, flag) ==
  LET snap == Snapshot(getUserQueue(q, user)) IN
  IF Len(snap) = 0
    THEN /\ passes' = passes
         /\ isSyncing' = flag
         /\ Notify(flag, q)
    ELSE /\ \E p \in PassIds :
              /\ ~passes[p].active
              /\ \A r \in PassIds : r < p => passes[r].active
              /\ passes' = [passes EXCEPT ![p] =
                              [active |-> TRUE, user |-> user, snap |-> snap, idx |-> 1]]
         /\ isSyncing' = TRUE
         /\ Notify(TRUE, q)

\* syncProfile / syncPokemonCatch / syncAchievement / syncWorksheet up to the
\* await, on cloudSync's side.
syncCall(type, payload) ==
  /\ userId # NoUser
  /\ nextId + Cardinality(ActiveCalls) <= MaxOps
  /\ \E c \in CallIds :
       /\ ~inflight[c].active
       /\ \A r \in CallIds : r < c => inflight[r].active
       /\ inflight' = [inflight EXCEPT ![c] =
                         [active |-> TRUE, type |-> type, payload |-> payload, user |-> userId]]
  /\ isSyncing' = TRUE
  /\ Notify(TRUE, queue)
  /\ NoRemoteWrite
  /\ UNCHANGED <<queue, nextId, passes, loading, userId, online,
                 applied, lostCount, delivered, dropped, cleared>>

\* A direct sync called by itself.
SyncStart(type, payload) ==
  /\ syncCall(type, payload)
  /\ UNCHANGED gameVars
  /\ UNCHANGED hookVars

\* ... and from the await on: queue the write when the service answered null or threw.
SyncReturn(c, outcome) ==
  LET call == inflight[c] IN
  /\ call.active
  /\ outcome = "lost" => lostCount < MaxLost
  /\ Committed(outcome) => Accepts(call.type, call.payload)
  /\ IF Committed(outcome)
       THEN RemoteWrite(call.type, call.payload, call.user,
                        IF outcome = "ok" THEN 0 ELSE nextId)
       ELSE NoRemoteWrite
  /\ IF outcome = "ok"
       THEN /\ UNCHANGED <<queue, nextId, applied>>
       ELSE /\ queue' = addToQueue(queue, nextId, call.type, call.payload, call.user)
            /\ nextId' = nextId + 1
            /\ applied' = [applied EXCEPT ![nextId] = IF outcome = "lost" THEN 1 ELSE 0]
  /\ lostCount' = IF outcome = "lost" THEN lostCount + 1 ELSE lostCount
  /\ inflight' = [inflight EXCEPT ![c] = IdleCall]
  /\ isSyncing' = FALSE
  /\ Notify(FALSE, queue')
  /\ UNCHANGED <<passes, loading, userId, online, delivered, dropped, cleared>>
  /\ UNCHANGED gameVars
  /\ UNCHANGED hookVars

\* useGameState's load effect on mount or on a change of userId, up to the
\* await in loadFromCloud, on cloudSync's side.
loadCall(u) ==
  /\ loading = NoUser
  /\ userId # u
  /\ userId' = u
  /\ loading' = u
  /\ isSyncing' = TRUE
  /\ Notify(TRUE, queue)
  /\ NoRemoteWrite
  /\ UNCHANGED <<queue, nextId, passes, inflight, online,
                 applied, lostCount, delivered, dropped, cleared>>

\* The load effect as cloudSync sees it.
LoadStart(u) ==
  /\ loadCall(u)
  /\ UNCHANGED gameVars
  /\ UNCHANGED hookVars

\* loadFromCloud's finally, then the effect's continuation: a cloud state
\* starts a drain pass, a null one falls back to localStorage; on cloudSync's
\* side.
loadAnswer(found) ==
  /\ loading # NoUser
  /\ loading' = NoUser
  /\ IF found
       THEN /\ processQueueStart(loading, queue, FALSE)
       ELSE /\ passes' = passes
            /\ isSyncing' = FALSE
            /\ Notify(FALSE, queue)
  /\ NoRemoteWrite
  /\ UNCHANGED <<queue, nextId, inflight, userId, online,
                 applied, lostCount, delivered, dropped, cleared>>

\* The load's answer as cloudSync sees it.
LoadReturn(found) ==
  /\ loadAnswer(found)
  /\ UNCHANGED gameVars
  /\ UNCHANGED hookVars

\* The window's 'online' event: useSyncStatus' handler and useGameState's handleOnline.
OnlineEvent ==
  /\ ~online
  /\ online' = TRUE
  /\ IF userId # NoUser
       THEN /\ processQueueStart(userId, queue, isSyncing)
       ELSE /\ UNCHANGED <<passes, isSyncing, pendingCount>>
  /\ NoRemoteWrite
  /\ UNCHANGED <<queue, nextId, inflight, loading, userId,
                 applied, lostCount, delivered, dropped, cleared>>
  /\ UNCHANGED gameVars
  /\ UNCHANGED hookVars

\* The window's 'offline' event.
OfflineEvent ==
  /\ online
  /\ online' = FALSE
  /\ NoRemoteWrite
  /\ UNCHANGED <<queue, nextId, passes, inflight, loading, userId, isSyncing,
                 pendingCount,
                 applied, lostCount, delivered, dropped, cleared>>
  /\ UNCHANGED gameVars
  /\ UNCHANGED hookVars

\* processQueue with a break after the first failed operation.
processQueueBreaks(p, success) == ~success \/ passes[p].idx >= Len(passes[p].snap)

\* processQueue's loop: whether the operation just handled was the last one.
processQueueDone(p, success) == passes[p].idx >= Len(passes[p].snap)

\* One turn of processQueue's loop from the await on: the answer of
\* processOperation, removeFromQueue or incrementRetryCount, then the next
\* operation's call, or the end of the pass.
PassReturn(p, outcome) ==
  LET op == Current(p)
      success == processOperation(outcome)
      queued == op.id \in QueueIds(queue)
  IN
  /\ passes[p].active
  /\ outcome = "lost" => lostCount < MaxLost
  /\ Committed(outcome) => Accepts(op.type, op.payload)
  /\ IF Committed(outcome)
       THEN RemoteWrite(op.type, op.payload, op.userId, op.id)
       ELSE NoRemoteWrite
  /\ applied' = IF Committed(outcome) THEN [applied EXCEPT ![op.id] = @ + 1] ELSE applied
  /\ lostCount' = IF outcome = "lost" THEN lostCount + 1 ELSE lostCount
  /\ queue' = IF success THEN removeFromQueue(queue, op.id)
                         ELSE incrementRetryCount(queue, op.id)
  /\ delivered' = IF success /\ queued THEN delivered \cup {op.id} ELSE delivered
  /\ dropped' = IF ~success /\ queued /\ op.id \notin QueueIds(queue')
                  THEN dropped \cup {op.id} ELSE dropped
  /\ IF processQueueDone(p, success)
       THEN /\ passes' = [passes EXCEPT ![p] = IdlePass]
            /\ isSyncing' = FALSE
            /\ Notify(FALSE, queue')
       ELSE /\ passes' = [passes EXCEPT ![p].idx = @ + 1]
            /\ UNCHANGED <<isSyncing, pendingCount>>
  /\ UNCHANGED <<nextId, inflight, loading, userId, online, cleared>>
  /\ UNCHANGED gameVars
  /\ UNCHANGED hookVars

\* cloudSync.clearQueue (on logout): the whole persisted queue is removed.
ClearQueue ==
  /\ queue # <<>>
  /\ queue' = <<>>
  /\ cleared' = cleared \cup QueueIds(queue)
  /\ Notify(isSyncing, queue')
  /\ NoRemoteWrite
  /\ UNCHANGED <<nextId, passes, inflight, loading, userId, isSyncing, online,
                 applied, lostCount, delivered, dropped>>
  /\ UNCHANGED gameVars
  /\ UNCHANGED hookVars

\* The page is closed and opened again: every call in flight loses its
\* continuation, the module state starts afresh, localStorage stays. s is the
\* pass whose write in flight had reached the remote store, 0 for none.
pageLoad(s) ==
  /\ s \in ActivePasses \cup {0}
  /\ s # 0 => lostCount < MaxLost /\ Accepts(Current(s).type, Current(s).payload)
  /\ IF s = 0 THEN NoRemoteWrite
     ELSE RemoteWrite(Current(s).type, Current(s).payload, Current(s).userId, Current(s).id)
  /\ applied' = IF s = 0 THEN applied ELSE [applied EXCEPT ![Current(s).id] = @ + 1]
  /\ lostCount' = IF s = 0 THEN lostCount ELSE lostCount + 1
  /\ passes' = [p \in PassIds |-> IdlePass]
  /\ inflight' = [c \in CallIds |-> IdleCall]
  /\ loading' = NoUser
  /\ userId' = NoUser
  /\ isSyncing' = FALSE
  /\ pendingCount' = getPendingCount(queue)
  /\ UNCHANGED <<queue, nextId, online, delivered, dropped, cleared>>

\* A page load that cuts a call in flight, as cloudSync sees it.
Reload(s) ==
  /\ ActivePasses # {} \/ ActiveCalls # {} \/ loading # NoUser
  /\ pageLoad(s)
  /\ UNCHANGED gameVars
  /\ UNCHANGED hookVars


\* --------------------------------------------------------- utils/storage.ts

AchievementIds ==
  {"first_catch", "catch_10", "catch_50", "catch_100",
   "streak_5", "streak_10", "streak_25", "streak_50",
   "worksheet_1", "worksheet_5", "worksheet_10", "perfect_worksheet",
   "level_5", "level_10", "correct_100", "correct_500"}

\* data/achievements.ts: the requirement of each achievement.
Requirement(id) ==
  CASE id \in {"first_catch", "worksheet_1", "perfect_worksheet"} -> 1
    [] id \in {"streak_5", "worksheet_5", "level_5"} -> 5
    [] id \in {"catch_10", "streak_10", "worksheet_10", "level_10"} -> 10
    [] id = "streak_25" -> 25
    [] id \in {"catch_50", "streak_50"} -> 50
    [] id \in {"catch_100", "correct_100"} -> 100
    [] id = "correct_500" -> 500

Max(a, b) == IF a >= b THEN a ELSE b

\* new Date().toISOString().split('T')[0]: the UTC date, as a day number.
Today == tick \div 3

\* What setHours(0, 0, 0, 0) leaves of an instant: the local date.
LocalDate(t) == (t + tz) \div 3

NoDate == 0
NoTime == 0

\* getDefaultGameState
getDefaultGameState ==
  [trainerName |-> "",
   caughtPokemon |-> <<>>,
   highestStreak |-> 0,
   totalCorrectAnswers |-> 0,
   totalProblemsAttempted |-> 0,
   worksheetsCompleted |-> <<>>,
   achievements |-> [a \in AchievementIds |-> [current |-> 0, unlockedAt |-> NoTime]],
   currentStreak |-> 0,
   lastPlayedDate |-> Today,
   xp |-> 0,
   level |-> 1,
   dailyLoginStreak |-> 0,
   lastRewardClaimedDate |-> NoDate,
   totalDaysPlayed |-> 0]

Count(seq) == Cardinality({i \in 1..Len(seq) : seq[i].stars = 3})

\* updateAchievements reading currentStreak for the streak achievements.
updateAchievementsCurrentStreak(state) ==
  [a \in AchievementIds |->
     LET achievement == state.achievements[a]
         current ==
           CASE a = "first_catch" -> IF Len(state.caughtPokemon) > 0 THEN 1 ELSE 0
             [] a \in {"catch_10", "catch_50", "catch_100"} -> Len(state.caughtPokemon)
             [] a \in {"streak_5", "streak_10", "streak_25", "streak_50"} -> state.currentStreak
             [] a \in {"worksheet_1", "worksheet_5", "worksheet_10"} -> Len(state.worksheetsCompleted)
             [] a = "perfect_worksheet" -> Count(state.worksheetsCompleted)
             [] a \in {"level_5", "level_10"} -> state.level
             [] a \in {"correct_100", "correct_500"} -> state.totalCorrectAnswers
         isUnlocked == current >= Requirement(a)
     IN [current |-> current,
         unlockedAt |-> IF isUnlocked /\ achievement.unlockedAt = NoTime
                          THEN tick ELSE achievement.unlockedAt]]

\* updateAchievements clearing the timestamp of an achievement whose current
\* is below the requirement.
updateAchievementsRelock(state) ==
  [a \in AchievementIds |->
     LET achievement == state.achievements[a]
         current ==
           CASE a = "first_catch" -> IF Len(state.caughtPokemon) > 0 THEN 1 ELSE 0
             [] a \in {"catch_10", "catch_50", "catch_100"} -> Len(state.caughtPokemon)
             [] a \in {"streak_5", "streak_10", "streak_25", "streak_50"} -> state.highestStreak
             [] a \in {"worksheet_1", "worksheet_5", "worksheet_10"} -> Len(state.worksheetsCompleted)
             [] a = "perfect_worksheet" -> Count(state.worksheetsCompleted)
             [] a \in {"level_5", "level_10"} -> state.level
             [] a \in {"correct_100", "correct_500"} -> state.totalCorrectAnswers
         isUnlocked == current >= Requirement(a)
     IN [current |-> current,
         unlockedAt |-> IF ~isUnlocked THEN NoTime
                        ELSE IF achievement.unlockedAt = NoTime THEN tick
                        ELSE achievement.unlockedAt]]

\* updateAchievements stamping the time of every evaluation that finds the
\* achievement unlocked.
updateAchievementsRestamp(state) ==
  [a \in AchievementIds |->
     LET achievement == state.achievements[a]
         current ==
           CASE a = "first_catch" -> IF Len(state.caughtPokemon) > 0 THEN 1 ELSE 0
             [] a \in {"catch_10", "catch_50", "catch_100"} -> Len(state.caughtPokemon)
             [] a \in {"streak_5", "streak_10", "streak_25", "streak_50"} -> state.highestStreak
             [] a \in {"worksheet_1", "worksheet_5", "worksheet_10"} -> Len(state.worksheetsCompleted)
             [] a = "perfect_worksheet" -> Count(state.worksheetsCompleted)
             [] a \in {"level_5", "level_10"} -> state.level
             [] a \in {"correct_100", "correct_500"} -> state.totalCorrectAnswers
         isUnlocked == current >= Requirement(a)
     IN [current |-> current,
         unlockedAt |-> IF isUnlocked THEN tick ELSE achievement.unlockedAt]]

\* updateAchievements
updateAchievements(state) ==
  [a \in AchievementIds |->
     LET achievement == state.achievements[a]
         current ==
           CASE a = "first_catch" -> IF Len(state.caughtPokemon) > 0 THEN 1 ELSE 0
             [] a \in {"catch_10", "catch_50", "catch_100"} -> Len(state.caughtPokemon)
             [] a \in {"streak_5", "streak_10", "streak_25", "streak_50"} -> state.highestStreak
             [] a \in {"worksheet_1", "worksheet_5", "worksheet_10"} -> Len(state.worksheetsCompleted)
             [] a = "perfect_worksheet" -> Count(state.worksheetsCompleted)
             [] a \in {"level_5", "level_10"} -> state.level
             [] a \in {"correct_100", "correct_500"} -> state.totalCorrectAnswers
         isUnlocked == current >= Requirement(a)
     IN [current |-> current,
         unlockedAt |-> IF isUnlocked /\ achievement.unlockedAt = NoTime
                          THEN tick ELSE achievement.unlockedAt]]

\* addCaughtPokemon keeping one record per species.
addCaughtPokemonOnce(state, pokemon, problemText) ==
  LET caught == [id |-> pokemon, caughtWithProblem |-> problemText]
      s1 == [state EXCEPT
               !.caughtPokemon =
                  IF \E i \in 1..Len(@) : @[i].id = pokemon
                    THEN [i \in 1..Len(@) |-> IF @[i].id = pokemon THEN caught ELSE @[i]]
                    ELSE Append(@, caught),
               !.xp = @ + 50]
      newLevel == (s1.xp \div 500) + 1
      s2 == IF newLevel > state.level THEN [s1 EXCEPT !.level = newLevel] ELSE s1
  IN [s2 EXCEPT !.achievements = updateAchievements(s2)]

\* addCaughtPokemon rounding the level up.
addCaughtPokemonEarly(state, pokemon, problemText) ==
  LET s1 == [state EXCEPT
               !.caughtPokemon = Append(@, [id |-> pokemon, caughtWithProblem |-> problemText]),
               !.xp = @ + 50]
      newLevel == ((s1.xp + 499) \div 500) + 1
      s2 == IF newLevel > state.level THEN [s1 EXCEPT !.level = newLevel] ELSE s1
  IN [s2 EXCEPT !.achievements = updateAchievements(s2)]

\* addCaughtPokemon assigning the computed level whatever the stored one.
addCaughtPokemonRelevel(state, pokemon, problemText) ==
  LET s1 == [state EXCEPT
               !.caughtPokemon = Append(@, [id |-> pokemon, caughtWithProblem |-> problemText]),
               !.xp = @ + 50]
      s2 == [s1 EXCEPT !.level = (s1.xp \div 500) + 1]
  IN [s2 EXCEPT !.achievements = updateAchievements(s2)]

\* addCaughtPokemon
addCaughtPokemon(state, pokemon, problemText) ==
  LET s1 == [state EXCEPT
               !.caughtPokemon = Append(@, [id |-> pokemon, caughtWithProblem |-> problemText]),
               !.xp = @ + 50]
      newLevel == (s1.xp \div 500) + 1
      s2 == IF newLevel > state.level THEN [s1 EXCEPT !.level = newLevel] ELSE s1
  IN [s2 EXCEPT !.achievements = updateAchievements(s2)]

\* updateStreak storing the new streak as the highest.
updateStreakOverwrite(state, newStreak) ==
  LET s1 == [state EXCEPT !.currentStreak = newStreak, !.highestStreak = newStreak]
  IN [s1 EXCEPT !.achievements = updateAchievements(s1)]

\* updateStreak
updateStreak(state, newStreak) ==
  LET s1 == [state EXCEPT !.currentStreak = newStreak,
                          !.highestStreak = Max(state.highestStreak, newStreak)]
  IN [s1 EXCEPT !.achievements = updateAchievements(s1)]

\* recordAnswer granting the XP of a correct answer to every answer.
recordAnswerEveryXp(state, correct) ==
  LET s1 == [state EXCEPT
               !.totalProblemsAttempted = @ + 1,
               !.totalCorrectAnswers = IF correct THEN @ + 1 ELSE @,
               !.xp = @ + 10]
      newLevel == (s1.xp \div 500) + 1
  IN IF newLevel > state.level THEN [s1 EXCEPT !.level = newLevel] ELSE s1

\* recordAnswer counting an attempt only for a wrong answer.
recordAnswerWrongOnly(state, correct) ==
  LET s1 == [state EXCEPT
               !.totalProblemsAttempted = IF correct THEN @ ELSE @ + 1,
               !.totalCorrectAnswers = IF correct THEN @ + 1 ELSE @,
               !.xp = IF correct THEN @ + 10 ELSE @]
      newLevel == (s1.xp \div 500) + 1
  IN IF newLevel > state.level THEN [s1 EXCEPT !.level = newLevel] ELSE s1

\* recordAnswer
recordAnswer(state, correct) ==
  LET s1 == [state EXCEPT
               !.totalProblemsAttempted = @ + 1,
               !.totalCorrectAnswers = IF correct THEN @ + 1 ELSE @,
               !.xp = IF correct THEN @ + 10 ELSE @]
      newLevel == (s1.xp \div 500) + 1
  IN IF newLevel > state.level THEN [s1 EXCEPT !.level = newLevel] ELSE s1

\* completeWorksheet
completeWorksheet(state, result) ==
  LET s1 == [state EXCEPT
               !.worksheetsCompleted = Append(@, result),
               !.xp = @ + (result.stars * 50)]
      newLevel == (s1.xp \div 500) + 1
      s2 == IF newLevel > state.level THEN [s1 EXCEPT !.level = newLevel] ELSE s1
  IN [s2 EXCEPT !.achievements = updateAchievements(s2)]

\* setTrainerName starting the streak over.
setTrainerNameClearing(state, name) == [state EXCEPT !.trainerName = name, !.currentStreak = 0]

\* setTrainerName
setTrainerName(state, name) == [state EXCEPT !.trainerName = name]

\* useGameState.resetStreak: the state it sets.
resetStreak(state) == [state EXCEPT !.currentStreak = 0]

\* canClaimDailyReward comparing with the local date.
canClaimDailyRewardLocal(state) == state.lastRewardClaimedDate # (tick + tz) \div 3

\* canClaimDailyReward
canClaimDailyReward(state) == state.lastRewardClaimedDate # Today

\* shouldContinueStreak: new Date(lastClaimedDate) is the UTC midnight of that
\* date; both instants are cut to the local midnight before the difference.
shouldContinueStreak(lastClaimedDate) ==
  IF lastClaimedDate = NoDate
    THEN FALSE
    ELSE LocalDate(tick) - LocalDate(3 * lastClaimedDate) = 1

\* claimDailyReward
claimDailyReward(state, xpBonus) ==
  LET streakContinues == shouldContinueStreak(state.lastRewardClaimedDate)
      newStreak == IF streakContinues THEN state.dailyLoginStreak + 1 ELSE 1
      newXp == state.xp + xpBonus
      newLevel == (newXp \div 500) + 1
      s1 == [state EXCEPT
               !.dailyLoginStreak = newStreak,
               !.lastRewardClaimedDate = Today,
               !.totalDaysPlayed = @ + 1,
               !.xp = newXp,
               !.level = Max(state.level, newLevel)]
  IN [s1 EXCEPT !.achievements = updateAchievements(s1)]

\* getCurrentStreakDay without the two early returns.
getCurrentStreakDayPlain(state) == (state.dailyLoginStreak % 7) + 1

\* getCurrentStreakDay
getCurrentStreakDay(state) ==
  IF state.lastRewardClaimedDate = NoDate THEN 1
  ELSE IF ~shouldContinueStreak(state.lastRewardClaimedDate) THEN 1
  ELSE (state.dailyLoginStreak % 7) + 1

\* getStorageKey: the item of a user id; NoUser stands for OFFLINE_KEY.
getStorageKey(user) == user

\* An item that is not in localStorage: loadGameState answers the default
\* state. An item records the state and the user it was loaded for.
NoItem(key) == [owner |-> key, state |-> getDefaultGameState]

\* loadGameState
loadGameState(user) == stored[getStorageKey(user)]

\* saveGameState, on the items st: state was loaded for who.
saveGameState(st, state, who, user) ==
  [st EXCEPT ![getStorageKey(user)] = [owner |-> who, state |-> state]]

\* isNewDay
isNewDay(state) == state.lastPlayedDate # Today

\* updateLastPlayedDate
updateLastPlayedDate(state) == [state EXCEPT !.lastPlayedDate = Today]

\* clearLocalData: the offline item and every user's item are removed.
clearLocalData == [key \in Users \cup {NoUser} |-> NoItem(key)]

\* ------------------------------------------------------- the reducer's events

Species == {25}
ProblemTexts == {"", "2 + 3"}
Stars == 0..3
Names == {"Ash"}
XpBonuses == {53, 270}

Event(state) ==
  /\ events < MaxEvents
  /\ events' = events + 1
  /\ game' = state
  /\ UNCHANGED <<tick, tz, showDailyReward>>
  /\ UNCHANGED syncVars
  /\ UNCHANGED hookVars

\* useGameState.catchPokemon
CatchPokemon(pokemon, problemText) == Event(addCaughtPokemon(game, pokemon, problemText))

\* useGameState.setCurrentStreak
SetCurrentStreak(newStreak) == Event(updateStreak(game, newStreak))

\* useGameState.recordAnswerResult
RecordAnswerResult(correct) == Event(recordAnswer(game, correct))

\* useGameState.completeWorksheetResult
CompleteWorksheetResult(result) == Event(completeWorksheet(game, result))

\* useGameState.setTrainerName
SetTrainerName(name) == Event(setTrainerName(game, name))

\* useGameState.resetStreak
ResetStreak == Event(resetStreak(game))

\* useGameState.claimDailyReward
ClaimDailyReward(xpBonus) == Event(claimDailyReward(game, xpBonus))

\* A day passes.
AdvanceDay ==
  /\ tick + 3 <= 3 * MaxDay
  /\ tick' = tick + 3
  /\ UNCHANGED <<game, tz, events, showDailyReward>>
  /\ UNCHANGED syncVars
  /\ UNCHANGED hookVars

GameNext ==
  \/ \E pokemon \in Species : \E problemText \in ProblemTexts : CatchPokemon(pokemon, problemText)
  \/ \E newStreak \in 0..MaxStreak : SetCurrentStreak(newStreak)
  \/ \E correct \in BOOLEAN : RecordAnswerResult(correct)
  \/ \E stars \in Stars : CompleteWorksheetResult([worksheetId |-> "w1", stars |-> stars])
  \/ \E name \in Names : SetTrainerName(name)
  \/ ResetStreak
  \/ \E xpBonus \in XpBonuses : ClaimDailyReward(xpBonus)
  \/ AdvanceDay

\* The hook after its mount without a user: the offline state is loaded and
\* saves are enabled; no item is in localStorage.
InitHook ==
  /\ isLoaded = TRUE
  /\ owner = NoUser
  /\ stored = clearLocalData
  /\ loggedOut = {}

InitClock ==
  /\ tick = 3
  /\ tz = 0
  /\ events = 0
  /\ showDailyReward = FALSE
  /\ InitHook

InitGameDefault ==
  /\ InitClock
  /\ game = getDefaultGameState

\* The profiles loadFromCloud or loadGameState can hand to the hook: the stored
\* level need not be the one the stored xp gives.
\* The achievement rows are stored apart from the caught Pokemon (toAppAchievements):
\* an unlocked achievement can come back without the catches behind it.
LoadedProfiles ==
  {[getDefaultGameState EXCEPT !.xp = xl[1], !.level = xl[2]] :
     xl \in {<<0, 1>>, <<450, 1>>, <<450, 3>>, <<990, 1>>}}
  \cup {[getDefaultGameState EXCEPT
           !.achievements["first_catch"] = [current |-> 1, unlockedAt |-> 1]]}

InitGameLoaded ==
  /\ InitClock
  /\ game \in LoadedProfiles

\* ------------------------------------------------------------------- Init

InitSync ==
  /\ queue = <<>>
  /\ nextId = 1
  /\ passes = [p \in PassIds |-> IdlePass]
  /\ inflight = [c \in CallIds |-> IdleCall]
  /\ loading = NoUser
  /\ userId = NoUser
  /\ isSyncing = FALSE
  /\ online = TRUE
  /\ pendingCount = 0
  /\ caughtRows = [w \in OpIds |-> 0]
  /\ worksheetRows = [w \in OpIds |-> 0]
  /\ profileRow = [u \in Users |-> 0]
  /\ progressRow = [u \in Users |-> 0]
  /\ applied = [w \in OpIds |-> 0]
  /\ lostCount = 0
  /\ delivered = {}
  /\ dropped = {}
  /\ cleared = {}

Init == InitSync /\ InitGameDefault

\* The kinds of write the sync half draws its inputs from: the queue and the
\* drain protocol treat every kind alike, up to the table RemoteWrite touches.
SyncKinds == {"pokemon_catch"}

Next ==
  \/ \E type \in SyncKinds : \E payload \in PayloadOf(type) : SyncStart(type, payload)
  \/ \E c \in CallIds : \E outcome \in Outcomes : SyncReturn(c, outcome)
  \/ \E u \in Users : LoadStart(u)
  \/ \E found \in BOOLEAN : LoadReturn(found)
  \/ OnlineEvent
  \/ OfflineEvent
  \/ \E p \in PassIds : \E outcome \in Outcomes : PassReturn(p, outcome)
  \/ ClearQueue
  \/ \E s \in PassIds \cup {0} : Reload(s)

Spec == Init /\ [][Next]_vars

\* What the caller of a remote call sees: a row, or an error.
Answers == {"ok", "fail"}

\* A drain pass of user u gets the answer of the call it awaits.
PassAnswer(u) ==
  \E p \in PassIds : \E outcome \in Answers :
    passes[p].user = u /\ PassReturn(p, outcome)

LiveNext ==
  \/ \E type \in SyncKinds : \E payload \in PayloadOf(type) : SyncStart(type, payload)
  \/ \E c \in CallIds : \E outcome \in Answers : SyncReturn(c, outcome)
  \/ \E u \in Users : LoadStart(u)
  \/ \E found \in BOOLEAN : LoadReturn(found)
  \/ OnlineEvent
  \/ OfflineEvent
  \/ \E p \in PassIds : \E outcome \in Answers : PassReturn(p, outcome)
  \/ Reload(0)

\* The queue's lifecycle with remote calls that answer: the call a running
\* pass awaits returns, and closing the page cannot pre-empt every pass for ever.
LiveSpec == Init /\ [][LiveNext]_vars /\ \A u \in Users : SF_vars(PassAnswer(u))

\* The answer of a remote store that is up: the row, or the schema's error.
StoreAnswer(type, payload) == IF Accepts(type, payload) THEN "ok" ELSE "fail"

\* Worksheet results synced to a store that is up: syncWorksheet with the
\* stars calculateStars can return, loads and connectivity events that start
\* drain passes.
WorksheetNext ==
  \/ \E stars \in Stars : SyncStart("worksheet_save", stars)
  \/ \E c \in CallIds : SyncReturn(c, StoreAnswer(inflight[c].type, inflight[c].payload))
  \/ \E u \in Users : LoadStart(u)
  \/ \E found \in BOOLEAN : LoadReturn(found)
  \/ OnlineEvent
  \/ OfflineEvent
  \/ \E p \in PassIds : PassReturn(p, StoreAnswer(Current(p).type, Current(p).payload))

WorksheetSpec == Init /\ [][WorksheetNext]_vars

\* The reducer from the default profile.
GameSpec == Init /\ [][GameNext]_vars

\* The hook after a load that found a profile.
InitLoaded == InitSync /\ InitGameLoaded

\* The reducer from a loaded profile.
LoadedSpec == InitLoaded /\ [][GameNext]_vars

\* ------------------------------------------------------- the daily reward

\* data/dailyRewards.ts: the xpBonus of the seven entries of DAILY_REWARDS.
DAILY_REWARDS == <<50, 75, 100, 100, 125, 150, 200>>

\* getDailyReward: the xpBonus of DAILY_REWARDS[(streakDay - 1) % 7].
getDailyReward(streakDay) == DAILY_REWARDS[((streakDay - 1) % 7) + 1]

Min(a, b) == IF a <= b THEN a ELSE b

\* getStreakMultiplier, in hundredths: 1 + Math.min(streakDay * 0.05, 0.35).
getStreakMultiplier(streakDay) == 100 + Min(streakDay * 5, 35)

\* DailyRewardModal: Math.round(todayReward.xpBonus * streakMultiplier); the
\* product in doubles rounds as the exact one for every entry and multiplier.
totalXp(currentStreakDay) ==
  (getDailyReward(currentStreakDay) * getStreakMultiplier(currentStreakDay) + 50) \div 100

\* App: the effect that opens the reward modal, and the click on the
\* DailyRewardIndicator, both offered while canClaimReward and a trainer name.
OpenModal ==
  /\ ~showDailyReward
  /\ canClaimDailyReward(game)
  /\ game.trainerName # ""
  /\ showDailyReward' = TRUE
  /\ UNCHANGED <<game, tick, tz, events>>
  /\ UNCHANGED syncVars
  /\ UNCHANGED hookVars

\* DailyRewardModal's onClose.
CloseModal ==
  /\ showDailyReward
  /\ showDailyReward' = FALSE
  /\ UNCHANGED <<game, tick, tz, events>>
  /\ UNCHANGED syncVars
  /\ UNCHANGED hookVars

\* DailyRewardModal.handleClaim, through App.handleClaimDailyReward and the
\* hook's claimDailyReward, with the currentStreakDay of the hook's render;
\* the modal closes after the claim.
HandleClaim ==
  /\ showDailyReward
  /\ events < MaxEvents
  /\ events' = events + 1
  /\ game' = claimDailyReward(game, totalXp(getCurrentStreakDay(game)))
  /\ showDailyReward' = FALSE
  /\ UNCHANGED <<tick, tz>>
  /\ UNCHANGED syncVars
  /\ UNCHANGED hookVars

\* Eight hours pass.
AdvanceClock ==
  /\ tick + 1 <= 3 * MaxDay + 2
  /\ tick' = tick + 1
  /\ UNCHANGED <<game, tz, events, showDailyReward>>
  /\ UNCHANGED syncVars
  /\ UNCHANGED hookVars

\* The device's clock is set back a day.
ClockSkew ==
  /\ tick - 3 >= 3
  /\ tick' = tick - 3
  /\ UNCHANGED <<game, tz, events, showDailyReward>>
  /\ UNCHANGED syncVars
  /\ UNCHANGED hookVars

\* The browser's offset from UTC, in units of eight hours.
TimeZones == {-1, 0, 1}

\* A new trainer's profile, and a stored one that claimed today, six days in a
\* row.
RewardProfiles ==
  {[getDefaultGameState EXCEPT !.trainerName = "Ash"],
   [getDefaultGameState EXCEPT
      !.trainerName = "Ash",
      !.dailyLoginStreak = 6, !.lastRewardClaimedDate = Today,
      !.totalDaysPlayed = 6, !.xp = 722, !.level = 2]}

InitReward ==
  /\ InitSync
  /\ tick = 3
  /\ tz \in TimeZones
  /\ events = 0
  /\ showDailyReward = FALSE
  /\ InitHook
  /\ game \in RewardProfiles

RewardNext ==
  \/ OpenModal
  \/ CloseModal
  \/ HandleClaim
  \/ AdvanceClock
  \/ ClockSkew

\* The daily reward over the clock, in every time zone.
RewardSpec == InitReward /\ [][RewardNext]_vars

\* ------------------------------------------------- the hook with its effects

\* loadFromCloud's GameState of a user's remote profile. The model keeps the
\* xp of the profile row; the counts and the level are the ones of a profile
\* whose xp comes from correct answers.
CloudState(u) ==
  [getDefaultGameState EXCEPT
     !.xp = profileRow[u],
     !.level = (profileRow[u] \div 500) + 1,
     !.totalCorrectAnswers = profileRow[u] \div 10,
     !.totalProblemsAttempted = profileRow[u] \div 10]

\* The auth user becomes u (sign-in, or the session restored after a page
\* load): the commit with the new userId runs the load effect up to its await
\* and then the save effect, which still sees the isLoaded and the gameState
\* of the render; setIsLoaded(false) shows in the next render.
Login(u) ==
  /\ userId = NoUser
  /\ loadCall(u)
  /\ stored' = IF isLoaded THEN saveGameState(stored, game, owner, u) ELSE stored
  /\ isLoaded' = FALSE
  /\ loggedOut' = loggedOut \ {u}
  /\ UNCHANGED <<game, owner, tick, tz, events, showDailyReward>>

\* The load effect from the await on, for the user it was started with: the
\* cloud state is adopted and cached, or the item of localStorage is; then the
\* save effect of the next render, under the userId of that render.
LoadDone(found) ==
  LET u == loading
      loaded == loadGameState(u)
      updated == IF isNewDay(loaded.state)
                   THEN updateLastPlayedDate(loaded.state) ELSE loaded.state
      adopted == [owner |-> u, state |-> IF found THEN CloudState(u) ELSE updated]
      cached == IF found \/ isNewDay(loaded.state)
                  THEN saveGameState(stored, adopted.state, adopted.owner, u)
                  ELSE stored
  IN
  /\ loadAnswer(found)
  /\ game' = adopted.state
  /\ owner' = adopted.owner
  /\ isLoaded' = TRUE
  /\ stored' = saveGameState(cached, adopted.state, adopted.owner, userId)
  /\ UNCHANGED <<loggedOut, tick, tz, events, showDailyReward>>

\* AppContent.handleLogout: clearLocalData, cloudSync.clearQueue, signOut; the
\* hook then loads the offline item, which is gone. Calls in flight go on.
Logout ==
  /\ userId # NoUser
  /\ queue' = <<>>
  /\ cleared' = cleared \cup QueueIds(queue)
  /\ Notify(isSyncing, queue')
  /\ NoRemoteWrite
  /\ userId' = NoUser
  /\ UNCHANGED <<nextId, passes, inflight, loading, isSyncing, online,
                 applied, lostCount, delivered, dropped>>
  /\ game' = getDefaultGameState
  /\ owner' = NoUser
  /\ isLoaded' = TRUE
  /\ stored' = saveGameState(clearLocalData, getDefaultGameState, NoUser, NoUser)
  /\ loggedOut' = loggedOut \cup {userId}
  /\ UNCHANGED <<tick, tz, events, showDailyReward>>

\* useGameState.recordAnswerResult with its syncProfile call and the save
\* effect of the render that follows.
AnswerResult(correct) ==
  /\ isLoaded
  /\ events < MaxAnswers
  /\ events' = events + 1
  /\ game' = recordAnswer(game, correct)
  /\ IF userId # NoUser
       THEN syncCall("profile_update", game'.xp)
       ELSE UNCHANGED syncVars
  /\ stored' = saveGameState(stored, game', owner, userId)
  /\ UNCHANGED <<owner, isLoaded, loggedOut, tick, tz, showDailyReward>>

\* The page is closed and opened again: cloudSync's module state starts
\* afresh, the hook mounts without a user (the session is restored later) and
\* loads the offline item.
PageReload ==
  LET loaded == loadGameState(NoUser)
      updated == IF isNewDay(loaded.state)
                   THEN updateLastPlayedDate(loaded.state) ELSE loaded.state
  IN
  /\ userId # NoUser
  /\ pageLoad(0)
  /\ game' = updated
  /\ owner' = NoUser
  /\ isLoaded' = TRUE
  /\ stored' = saveGameState(stored, updated, NoUser, NoUser)
  /\ UNCHANGED <<loggedOut, tick, tz, events, showDailyReward>>

\* The account that signs in on this device.
Accounts == {"u1"}

HookNext ==
  \/ \E u \in Accounts : Login(u)
  \/ \E found \in BOOLEAN : LoadDone(found)
  \/ Logout
  \/ AnswerResult(TRUE)
  \/ \E c \in CallIds : \E outcome \in Answers : SyncReturn(c, outcome)
  \/ \E p \in PassIds : \E outcome \in Answers : PassReturn(p, outcome)
  \/ OnlineEvent
  \/ OfflineEvent
  \/ PageReload

\* The hook with cloudSync: sign-in, load, play, logout, page loads.
HookSpec == Init /\ [][HookNext]_vars

\* ----------------------------------------------------------- the sync claims

Failures == {"lost", "fail"}

\* q without the entry of id, the other entries as they are and in their order.
Without(q, id) == SelectSeq(q, LAMBDA o : o.id # id)

StartsPass(p) == ~passes[p].active /\ passes'[p].active

SnapIds(p) == {passes[p].snap[i].id : i \in 1..Len(passes[p].snap)}

\* C1: a queued operation never carries more than 5 recorded failures; a
\* recorded failure of an operation with retryCount r < 5 leaves it queued with
\* retryCount r + 1 (so after 5 failures it is queued with 5), the failure
\* recorded at retryCount 5 (the 6th) removes it; a removed operation never
\* comes back, and no drain pass that starts afterwards has it in its list.
C1_StillQueued ==
  \A i \in 1..Len(queue) : queue[i].retryCount \in 0..5 /\ queue[i].id \notin dropped

C1_SixthFailureDrops ==
  /\ \A p \in PassIds : \A o \in Failures :
       (PassReturn(p, o) /\ Current(p).id \in QueueIds(queue)) =>
          LET id == Current(p).id
              r == Entry(queue, id).retryCount
          IN IF r < 5
               THEN /\ id \in QueueIds(queue')
                    /\ Entry(queue', id).retryCount = r + 1
                    /\ id \notin dropped'
               ELSE /\ id \notin QueueIds(queue')
                    /\ id \in dropped'
  /\ \A p \in PassIds : StartsPass(p) => SnapIds(p)' \cap dropped = {}
  /\ dropped \subseteq dropped'

\* C1: the retry bound: still queued with retryCount 5 after 5 failures,
\* removed by the 6th, and never attempted by a pass that starts later.
Thm_C1 == [](C1_StillQueued) /\ [][C1_SixthFailureDrops]_vars

\* An operation was dropped at its 6th failure and a later pass is running.
Wit_C1 == dropped # {} /\ ActivePasses # {}

Enqueued == 1..(nextId - 1)

\* C2 as stated: an operation that left the queue has had its remote write
\* committed at least once.
Cex_C2 == \A id \in Enqueued : id \notin QueueIds(queue) => applied[id] >= 1

\* C2, amended: an operation leaves the queue as delivered only after its
\* remote write was committed at least once (possibly more often); the only
\* other ways out of the queue are the drop at the retry bound and clearQueue.
Thm_C2 ==
  /\ \A id \in delivered : applied[id] >= 1
  /\ \A id \in Enqueued :
       id \notin QueueIds(queue) => id \in delivered \cup dropped \cup cleared

\* An operation was delivered after its write had been committed twice.
Wit_C2 == \E id \in delivered : applied[id] >= 2

\* C3 as stated: at most one drain pass is in flight.
Cex_C3 == Cardinality(ActivePasses) <= 1

\* C4 as stated: the catches and worksheet saves replayed from the queue leave
\* one row each in the remote tables.
Cex_C4 == \A id \in OpIds : caughtRows[id] <= 1 /\ worksheetRows[id] <= 1

\* C5: addToQueue appends the new operation, retryCount 0, at the tail and
\* leaves the others as they are; the queue is in enqueue order and holds
\* exactly the operations that were neither delivered, dropped nor cleared, so
\* getUserQueue(u) is the pending operations of u, oldest first; that is the
\* list a drain pass of u starts from.
C5_Fifo ==
  /\ \A i, j \in 1..Len(queue) : i < j => queue[i].id < queue[j].id
  /\ QueueIds(queue) = Enqueued \ (delivered \cup dropped \cup cleared)
  /\ \A u \in Users :
       LET uq == getUserQueue(queue, u) IN
       /\ \A i, j \in 1..Len(uq) : i < j => uq[i].id < uq[j].id
       /\ {uq[i] : i \in 1..Len(uq)} = {queue[i] : i \in {k \in 1..Len(queue) : queue[k].userId = u}}

C5_Append ==
  /\ \A c \in CallIds : \A o \in Failures :
       SyncReturn(c, o) =>
         /\ Len(queue') = Len(queue) + 1
         /\ SubSeq(queue', 1, Len(queue)) = queue
         /\ queue'[Len(queue')] = [id |-> nextId, type |-> inflight[c].type,
                                   payload |-> inflight[c].payload,
                                   userId |-> inflight[c].user, retryCount |-> 0]
  /\ \A p \in PassIds :
       StartsPass(p) =>
         /\ SnapIds(p)' = {queue[i].id : i \in {k \in 1..Len(queue) :
                                                  queue[k].userId = passes'[p].user}}
         /\ \A i, j \in 1..Len(passes'[p].snap) :
              i < j => passes'[p].snap[i].id < passes'[p].snap[j].id

\* C5: enqueue appends at the tail with retryCount 0, and getUserQueue is the
\* user's pending operations in enqueue order.
Thm_C5 == [](C5_Fifo) /\ [][C5_Append]_vars

\* Two users have operations queued, one of them failed before, and a pass runs.
Wit_C5 ==
  /\ Len(queue) = 2
  /\ queue[1].userId # queue[2].userId
  /\ queue[1].retryCount > 0
  /\ ActivePasses # {}

\* C6: a pass handles the operations of its list one by one, in queue order.
\* A success removes that operation and only it; a failure adds one to that
\* operation's retryCount (or drops it at the bound) and touches no other; after
\* either, the pass goes on to the next operation of its list, and ends after
\* the last.
C6_InOrder ==
  \A p \in ActivePasses :
    /\ passes[p].idx \in 1..Len(passes[p].snap)
    /\ \A i, j \in 1..Len(passes[p].snap) :
         i < j => passes[p].snap[i].id < passes[p].snap[j].id

C6_OneAtATime ==
  \A p \in PassIds : \A o \in Outcomes :
    PassReturn(p, o) =>
      LET id == Current(p).id IN
      /\ Without(queue', id) = Without(queue, id)
      /\ o = "ok" => id \notin QueueIds(queue')
      /\ (o # "ok" /\ id \in QueueIds(queue)) =>
           \/ /\ id \in QueueIds(queue')
              /\ Entry(queue', id) =
                   [Entry(queue, id) EXCEPT !.retryCount = @ + 1]
           \/ /\ id \notin QueueIds(queue')
              /\ Entry(queue, id).retryCount = 5
      /\ IF passes[p].idx < Len(passes[p].snap)
           THEN passes'[p] = [passes[p] EXCEPT !.idx = @ + 1]
           ELSE ~passes'[p].active

\* C6: one operation at a time in queue order, each outcome touching only
\* its operation, a failure not ending the pass.
Thm_C6 == [](C6_InOrder) /\ [][C6_OneAtATime]_vars

\* A pass is at its second operation after the first one failed and stayed queued.
Wit_C6 ==
  \E p \in ActivePasses :
    /\ passes[p].idx = 2
    /\ passes[p].snap[1].id \in QueueIds(queue)
    /\ Entry(queue, passes[p].snap[1].id).retryCount >= 1

\* C7 as stated: once an operation was dropped at the retry bound, the
\* indicator does not show the synced state.
Cex_C7 == dropped # {} => SyncIndicator # "Synced"

\* -------------------------------------------------------- the reducer claims

\* C8: every event that changes xp leaves level = max(previous level,
\* floor(new xp / 500) + 1), also on a profile whose stored level is above the
\* one its xp gives; no event lowers the level.
C8_LevelMax ==
  /\ game'.xp # game.xp => game'.level = Max(game.level, (game'.xp \div 500) + 1)
  /\ game'.level >= game.level

\* C8: level = max(previous level, floor(new xp / 500) + 1) after every
\* event that changes xp, and level never decreases.
Thm_C8 == [][C8_LevelMax]_vars

\* A profile whose stored level is above the computed one, after a catch and a
\* daily claim.
Wit_C8 ==
  /\ game.level > (game.xp \div 500) + 1
  /\ Len(game.caughtPokemon) > 0
  /\ game.totalDaysPlayed > 0

\* C9: a streak update to n leaves highestStreak = max(previous highestStreak,
\* n); no event, a streak reset included, lowers highestStreak.
C9_HighestStreak ==
  /\ \A n \in 0..MaxStreak :
       SetCurrentStreak(n) => game'.highestStreak = Max(game.highestStreak, n)
  /\ game'.highestStreak >= game.highestStreak

\* C9: highestStreak is a running maximum and never decreases.
Thm_C9 == [][C9_HighestStreak]_vars

\* The streak was updated to a smaller value, or reset, after its highest.
Wit_C9 == game.highestStreak >= 2 /\ game.currentStreak < game.highestStreak

\* C10: from the default profile, no event lowers the current value of any
\* achievement.
C10_CurrentMonotonic ==
  \A a \in AchievementIds :
    game'.achievements[a].current >= game.achievements[a].current

\* C10: no achievement's current decreases from the default profile on.
Thm_C10 == [][C10_CurrentMonotonic]_vars

\* The streak achievements were evaluated after the streak fell, and the catch
\* achievements after a catch.
Wit_C10 ==
  /\ game.achievements["streak_5"].current >= 2
  /\ game.currentStreak = 0
  /\ game.achievements["catch_10"].current >= 1

\* The events of the reducer that run updateAchievements.
Evaluates ==
  \/ \E pokemon \in Species : \E problemText \in ProblemTexts : CatchPokemon(pokemon, problemText)
  \/ \E newStreak \in 0..MaxStreak : SetCurrentStreak(newStreak)
  \/ \E stars \in Stars : CompleteWorksheetResult([worksheetId |-> "w1", stars |-> stars])
  \/ \E xpBonus \in XpBonuses : ClaimDailyReward(xpBonus)

\* A timestamp that is set is kept as it is; one that appears was stamped with
\* the time of that evaluation, which found current >= requirement; and an
\* evaluation that finds current >= requirement leaves a timestamp.
C11_UnlockOnce ==
  LET Kept(a) == game'.achievements[a].unlockedAt = game.achievements[a].unlockedAt
      Unlocked(a) == game'.achievements[a].current >= Requirement(a)
  IN /\ \A a \in AchievementIds :
          \/ Kept(a)
          \/ /\ game.achievements[a].unlockedAt = NoTime
             /\ game'.achievements[a].unlockedAt = tick
             /\ Unlocked(a)
     /\ (\E a \in AchievementIds : ~Kept(a)) => Evaluates
     /\ Evaluates =>
          \A a \in AchievementIds : Unlocked(a) => game'.achievements[a].unlockedAt # NoTime

\* C11: an achievement's unlock timestamp is set once, by the first evaluation
\* in which current >= requirement, and is present and unchanged in every later
\* state, also when a later evaluation computes current below the requirement.
Thm_C11 == [][C11_UnlockOnce]_vars

\* An achievement unlocked earlier whose current an evaluation has recomputed
\* below the requirement, next to one unlocked by an evaluation of this run on
\* an earlier day.
Wit_C11 ==
  /\ game.achievements["first_catch"].unlockedAt # NoTime
  /\ game.achievements["first_catch"].current < Requirement("first_catch")
  /\ game.achievements["worksheet_1"].unlockedAt # NoTime
  /\ game.achievements["worksheet_1"].unlockedAt < tick
  /\ game.highestStreak > 0

\* The profile with its achievements evaluated.
evaluate(state) == [state EXCEPT !.achievements = updateAchievements(state)]

\* A profile as an evaluation leaves it: every current is the one an
\* evaluation computes, and every achievement that is unlocked has a timestamp.
Evaluated(state) ==
  \A a \in AchievementIds :
    /\ state.achievements[a].current = updateAchievements(state)[a].current
    /\ state.achievements[a].current >= Requirement(a) => state.achievements[a].unlockedAt # NoTime

\* evaluate(evaluate(P)) = evaluate(P), P any profile the reducer reaches (the
\* ones recordAnswer left with stale achievements included).
C12_FixedPoint == evaluate(evaluate(game)) = evaluate(game)

\* A streak update to the streak the profile has changes no counter: on an
\* evaluated profile it is a second evaluation, at the time of the update.
C12_NoDrift ==
  (/\ Evaluated(game)
   /\ game.highestStreak >= game.currentStreak
   /\ SetCurrentStreak(game.currentStreak)) => game' = game

\* C12: achievement evaluation is idempotent: evaluating an already evaluated
\* profile gives the same current values and the same unlock timestamps, also
\* when the second evaluation runs at a later time.
Thm_C12 == [](C12_FixedPoint) /\ [][C12_NoDrift]_vars

\* An evaluated profile with an achievement unlocked on an earlier day, whose
\* evaluation now gives the same achievements.
Wit_C12 ==
  /\ Evaluated(game)
  /\ game.achievements["worksheet_1"].unlockedAt # NoTime
  /\ game.achievements["worksheet_1"].unlockedAt < tick
  /\ game.totalProblemsAttempted > 0
  /\ evaluate(game) = game

\* Some counter an achievement tracks differs between the two profiles.
TrackedChanged(before, after) ==
  \/ Len(after.caughtPokemon) # Len(before.caughtPokemon)
  \/ after.highestStreak # before.highestStreak
  \/ Len(after.worksheetsCompleted) # Len(before.worksheetsCompleted)
  \/ Count(after.worksheetsCompleted) # Count(before.worksheetsCompleted)
  \/ after.level # before.level
  \/ after.totalCorrectAnswers # before.totalCorrectAnswers

C13_Refreshed ==
  TrackedChanged(game, game') =>
    \A a \in AchievementIds :
      game'.achievements[a].current = updateAchievements(game')[a].current

\* C13: after every reducer event that changes a tracked counter, every
\* achievement's current is the value the mapping gives for the resulting
\* profile, a correct answer included. recordAnswer returns without running
\* updateAchievements, so this does not hold.
Cex_C13 == [][C13_Refreshed]_vars

RECURSIVE SumStars(_)
SumStars(seq) == IF seq = <<>> THEN 0 ELSE Head(seq).stars + SumStars(Tail(seq))

C14_Conserved ==
  game.totalDaysPlayed = 0 =>
    game.xp = 10 * game.totalCorrectAnswers
              + 50 * Len(game.caughtPokemon)
              + 50 * SumStars(game.worksheetsCompleted)

C14_WrongAddsNothing == RecordAnswerResult(FALSE) => game'.xp = game.xp

\* C14: from the default profile and without daily claims, xp = 10 * (correct
\* answers) + 50 * (catches) + 50 * (sum of the worksheets' stars) after any
\* interleaving of the events; a wrong answer adds no XP.
Thm_C14 == [](C14_Conserved) /\ [][C14_WrongAddsNothing]_vars

\* No claim, and each kind of event has happened: a correct and a wrong
\* answer, a catch and a worksheet with stars.
Wit_C14 ==
  /\ game.totalDaysPlayed = 0
  /\ game.totalCorrectAnswers > 0
  /\ game.totalProblemsAttempted > game.totalCorrectAnswers
  /\ Len(game.caughtPokemon) > 0
  /\ SumStars(game.worksheetsCompleted) > 0

C15_Level == game.level = (game.xp \div 500) + 1

C15_LevelTwoAtFiveHundred ==
  (game.level = 1 /\ game'.level >= 2) => (game.xp < 500 /\ game'.xp >= 500)

\* C15: from the default profile, level = floor(xp / 500) + 1 in every state;
\* the level leaves 1 in the step that takes xp to 500 or above, not before.
Thm_C15 == [](C15_Level) /\ [][C15_LevelTwoAtFiveHundred]_vars

\* xp has reached 500 exactly, by a catch, and the level is 2.
Wit_C15 ==
  /\ game.xp = 500
  /\ game.level = 2
  /\ Len(game.caughtPokemon) > 0

C16_CorrectAtMostAttempted == game.totalCorrectAnswers <= game.totalProblemsAttempted

C16_Counts ==
  \A correct \in BOOLEAN :
    RecordAnswerResult(correct) =>
      /\ game'.totalProblemsAttempted = game.totalProblemsAttempted + 1
      /\ game'.totalCorrectAnswers = game.totalCorrectAnswers + (IF correct THEN 1 ELSE 0)

\* C16: from the default profile, totalCorrectAnswers <= totalProblemsAttempted;
\* an answer adds 1 to totalProblemsAttempted, and 1 to totalCorrectAnswers
\* only when it is correct.
Thm_C16 == [](C16_CorrectAtMostAttempted) /\ [][C16_Counts]_vars

\* Correct and wrong answers have been recorded.
Wit_C16 ==
  /\ game.totalCorrectAnswers >= 2
  /\ game.totalProblemsAttempted > game.totalCorrectAnswers

\* ----------------------------------------------------- the calendar claims

\* A claim stores the day it is made on and closes the gate at once.
C17_ClaimCloses ==
  HandleClaim =>
    /\ game'.lastRewardClaimedDate = tick \div 3
    /\ ~canClaimDailyReward(game')

\* The gate is closed on the day of the last claim and open on every other
\* day, and when nothing was ever claimed.
C17_Gate ==
  LET last == game.lastRewardClaimedDate
      day == tick \div 3
  IN \/ last = NoDate /\ canClaimDailyReward(game)
     \/ last # NoDate /\ day = last /\ ~canClaimDailyReward(game)
     \/ last # NoDate /\ day # last /\ canClaimDailyReward(game)

\* C17: canClaim is false for the rest of the calendar day (the UTC date the
\* claim stores) on which a claim was made, true on the next day and on every
\* day after a gap, and true when nothing was ever claimed.
Thm_C17 == [](C17_Gate) /\ [][C17_ClaimCloses]_vars

\* West of UTC, two days after the last claim: the gate is open again.
Wit_C17 ==
  /\ tz = -1
  /\ game.totalDaysPlayed > 0
  /\ game.lastRewardClaimedDate # NoDate
  /\ tick \div 3 = game.lastRewardClaimedDate + 2
  /\ canClaimDailyReward(game)

C18_Continuity ==
  HandleClaim =>
    game'.dailyLoginStreak =
      IF game.lastRewardClaimedDate # NoDate /\ tick \div 3 = game.lastRewardClaimedDate + 1
        THEN game.dailyLoginStreak + 1
        ELSE 1

\* C18: a claim made exactly one calendar day after lastRewardClaimedDate,
\* whatever the time of day, sets dailyLoginStreak to previous + 1, and a claim
\* after any other gap, or the first one, sets it to 1. shouldContinueStreak
\* cuts both instants to the local midnight, which away from UTC is not the
\* midnight of the stored date, so this does not hold.
Cex_C18 == [][C18_Continuity]_vars

\* The slot of a claim is the place in the seven-day cycle of the streak the
\* claim produces.
C19_SlotOfClaim ==
  HandleClaim =>
    getCurrentStreakDay(game) = ((game'.dailyLoginStreak - 1) % 7) + 1

C19_Slot ==
  /\ getCurrentStreakDay(game) \in 1..7
  /\ getCurrentStreakDay(game) =
       IF shouldContinueStreak(game.lastRewardClaimedDate)
         THEN (game.dailyLoginStreak % 7) + 1
         ELSE 1

C20_Xp(baseBonus, streakDay) == (baseBonus * (100 + Min(streakDay * 5, 35)) + 50) \div 100

C20_Granted ==
  HandleClaim =>
    game'.xp - game.xp =
      C20_Xp(getDailyReward(getCurrentStreakDay(game)), game'.dailyLoginStreak)

\* C20: the XP of a daily claim is round(baseBonus * (1 + min(streakDay *
\* 0.05, 0.35))), baseBonus the entry of the slot and streakDay the daily login
\* streak the claim reaches, so that day 8 pays the day-1 entry 1.35 times. The
\* modal hands the slot to getStreakMultiplier, so this does not hold.
Cex_C20 == [][C20_Granted]_vars

\* ------------------------------------------------------- the frame claims

C21_Caught ==
  \A pokemon \in Species : \A problemText \in ProblemTexts :
    CatchPokemon(pokemon, problemText) =>
      LET before == game.caughtPokemon
          after == game'.caughtPokemon
      IN /\ Len(after) = Len(before) + 1
         /\ after[Len(after)].id = pokemon
         /\ after[Len(after)].caughtWithProblem = problemText
         /\ \A i \in 1..Len(before) : after[i] = before[i]

C21_OnlyCatch ==
  game'.caughtPokemon # game.caughtPokemon =>
    \E pokemon \in Species : \E problemText \in ProblemTexts :
      CatchPokemon(pokemon, problemText)

\* C21: caughtPokemon is append-only: a catch adds one record at the end, with
\* the species and the problem text of the event, and leaves the earlier ones
\* as they were and where they were, also when the species was caught before;
\* no other event changes caughtPokemon.
Thm_C21 == [][C21_Caught /\ C21_OnlyCatch]_vars

\* The same species caught twice, with different problem texts: two records.
Wit_C21 ==
  /\ Len(game.caughtPokemon) = 2
  /\ game.caughtPokemon[1].id = game.caughtPokemon[2].id
  /\ game.caughtPokemon[1].caughtWithProblem # game.caughtPokemon[2].caughtWithProblem
  /\ Len(game.worksheetsCompleted) > 0

\* The fields of the profile.
C22_Fields == DOMAIN getDefaultGameState

C22_Named ==
  \A name \in Names :
    SetTrainerName(name) => game' = [game EXCEPT !.trainerName = name]

C22_Streak ==
  \A newStreak \in 0..MaxStreak :
    SetCurrentStreak(newStreak) =>
      \A f \in C22_Fields \ {"currentStreak", "highestStreak", "achievements"} :
        game'[f] = game[f]

C22_Total == DOMAIN game' = C22_Fields

C22_Wrong ==
  RecordAnswerResult(FALSE) =>
    game' = [game EXCEPT !.totalProblemsAttempted = @ + 1,
                         !.level = Max(@, (game.xp \div 500) + 1)]

C23_Triggered(u) == \E p \in PassIds : StartsPass(p) /\ passes'[p].user = u

C23_Queued(u, id) == \E i \in 1..Len(queue) : queue[i].id = id /\ queue[i].userId = u

C23_Leaves ==
  \A u \in Users :
    ([]<><<C23_Triggered(u)>>_vars) =>
      \A id \in OpIds : (C23_Queued(u, id) ~> id \notin QueueIds(queue))

C23_Gone ==
  /\ dropped \cap QueueIds(queue) = {}
  /\ delivered \cap QueueIds(queue) = {}

\* C23: while drain passes of a user keep being triggered, every operation
\* queued for that user leaves the queue, by a successful write or by the drop
\* at the retry bound; an operation that left is not queued again.
Thm_C23 == [](C23_Gone) /\ C23_Leaves

\* One operation was dropped at the bound and another delivered.
Wit_C23 == dropped # {} /\ delivered # {} /\ queue = <<>>

\* Some remote call is in flight: a load, a direct sync or a drain pass.
C27_InFlight == loading # NoUser \/ ActiveCalls # {} \/ ActivePasses # {}

\* C27 as stated: isSyncing is true exactly while some remote call is in
\* flight. Every call clears the one flag in its finally, so the first of two
\* overlapping calls to finish clears it under the other.
Cex_C27 == isSyncing <=> C27_InFlight

\* C28 as stated: a claim on a profile whose lastRewardClaimedDate is today
\* changes neither xp, level, dailyLoginStreak nor totalDaysPlayed.
\* claimDailyReward has no such test; the modal's gate is evaluated when the
\* modal opens, not when the claim is made.
Cex_C28 ==
  [][(HandleClaim /\ game.lastRewardClaimedDate = Today) =>
       /\ game'.xp = game.xp
       /\ game'.level = game.level
       /\ game'.dailyLoginStreak = game.dailyLoginStreak
       /\ game'.totalDaysPlayed = game.totalDaysPlayed]_vars

\* C24 as stated: no drain pass leaves the remote profile with an older
\* value: the remote xp never decreases. processOperation replays the queued
\* payload as it was recorded.
Cex_C24 ==
  [][\A p \in PassIds : \A outcome \in Answers :
       PassReturn(p, outcome) => \A u \in Users : profileRow'[u] >= profileRow[u]]_vars

\* C25 as stated: the profile adopted by a load reflects every operation
\* still in the user's queue: its xp is not below the xp a queued profile
\* update carries.
Cex_C25 ==
  [][\A found \in BOOLEAN :
       LoadDone(found) =>
         \A i \in 1..Len(queue) :
           (queue[i].userId = loading /\ queue[i].type = "profile_update")
             => game'.xp >= queue[i].payload]_vars

\* C26 as stated: the state stored under a user's key is always derived from
\* a load for that same user.
Cex_C26 == \A u \in Users : stored[getStorageKey(u)].owner = u

\* C30 as stated: after logout the queue holds no operation of the
\* logged-out user.
Cex_C30 == \A i \in 1..Len(queue) : queue[i].userId \notin loggedOut

\* C29 as stated: with the remote store up, no worksheet result is condemned
\* to fail every attempt: none is dropped for exceeding the retry bound. The
\* schema rejects a result of 0 stars at every attempt.
Cex_C29 == dropped = {}

====
